---- MODULE Spec2Model ----
(***************************************************************************)
(* Model of DSSATTools/weather.py: the Weather class (construction with    *)
(* column mapping, quality control and date-index resolution) and its      *)
(* write method (truncation by simulation start and one file per year).    *)
(*                                                                         *)
(* Encoding.  A table (pandas DataFrame) is a record                       *)
(*   [cols |-> sequence of columns, idt |-> index is datetime-typed,       *)
(*    index |-> sequence of index values]                                  *)
(* and a column is [name, dt (datetime-typed), vals].  A date is the       *)
(* integer year*1000 + day-of-year, so integer order is date order.  A     *)
(* string that the code slices (INSI, file names) is a sequence of         *)
(* one-character strings.  A dict is the sequence of its (key, value)      *)
(* pairs in insertion order, with distinct keys.  Column labels are        *)
(* strings, possibly the empty string.  The weather-variable               *)
(* columns of an input table hold numbers or NA; only dedicated date       *)
(* columns (and possibly the index) are datetime-typed.                    *)
(***************************************************************************)
EXTENDS Integers, Sequences, FiniteSets, TLC

VARIABLES pc, df, pars, geo, err, mapped, station, data, orig,
          dirs, files, last, starts, nWrites

vars == <<pc, df, pars, geo, err, mapped, station, data, orig,
          dirs, files, last, starts, nWrites>>

(***************************************************************************)
(* Bounds of the model                                                     *)
(***************************************************************************)
MaxRows == 2

MaxWrites == 2

MaxRecs == 3

(***************************************************************************)
(* Parameter catalog                                                       *)
(***************************************************************************)
PARS_DESC == <<"INSI", "LAT", "LONG", "ELEV", "TAV", "AMP", "REFHT", "WNDHT",
               "DATE", "SRAD", "TMAX", "TMIN", "RAIN", "DEWP", "WIND", "PAR",
               "EVAP", "RHUM">>

PARS_STATION == <<"INSI", "LAT", "LONG", "ELEV", "TAV", "AMP", "REFHT", "WNDHT">>

Elems(s) == {s[i] : i \in 1..Len(s)}

PARS_DATA == SelectSeq(PARS_DESC, LAMBDA p : p \notin Elems(PARS_STATION))

MANDATORY_DATA == <<"TMIN", "TMAX", "RAIN", "SRAD">>

\* pandas.NA / NaN: a missing cell.  Every ordering comparison with it is False.
NA == -99

(***************************************************************************)
(* The pandas operations the code uses                                     *)
(***************************************************************************)
NoTable == [cols |-> <<>>, idt |-> FALSE, index |-> <<>>]

Columns(t) == [i \in 1..Len(t.cols) |-> t.cols[i].name]

HasCol(t, c) == \E i \in 1..Len(t.cols) : t.cols[i].name = c

ColPos(t, c) == CHOOSE i \in 1..Len(t.cols) : t.cols[i].name = c

GetCol(t, c) == t.cols[ColPos(t, c)]

\* data[value] = series: replaces the column in place when it exists,
\* appends it as the last column otherwise
SetCol(t, c, series) ==
    LET new == [name |-> c, dt |-> series.dt, vals |-> series.vals]
    IN  IF HasCol(t, c)
        THEN [t EXCEPT !.cols = [i \in 1..Len(t.cols) |->
                                   IF i = ColPos(t, c) THEN new ELSE t.cols[i]]]
        ELSE [t EXCEPT !.cols = Append(t.cols, new)]

\* data.drop(columns=[c], inplace=True)
DropCol(t, c) == [t EXCEPT !.cols = SelectSeq(t.cols, LAMBDA col : col.name # c)]

\* set_index that keeps the column (drop=False)
SetIndexKeep(t, c) ==
    [cols |-> t.cols, idt |-> GetCol(t, c).dt, index |-> GetCol(t, c).vals]

\* data.set_index(c, inplace=True)
SetIndex(t, c) ==
    [cols |-> SelectSeq(t.cols, LAMBDA col : col.name # c),
     idt |-> GetCol(t, c).dt,
     index |-> GetCol(t, c).vals]

\* elementwise <= and >= of numeric cells; a missing cell compares False
Le(a, b) == a # NA /\ b # NA /\ a <= b

Ge(a, b) == a # NA /\ b # NA /\ a >= b

(***************************************************************************)
(* Weather.__init__                                                        *)
(***************************************************************************)
\* the mapping loop without the drop of the source column
RECURSIVE MapLoopNoDrop(_, _, _)
MapLoopNoDrop(t, p, i) ==
    IF i > Len(p) THEN [err |-> "none", data |-> t]
    ELSE LET key == p[i][1]
             value == p[i][2]
         IN  IF value \notin Elems(PARS_DATA)
             THEN [err |-> "InvalidVariableName", data |-> t]
             ELSE IF key \notin Elems(PARS_DATA)
             THEN IF ~HasCol(t, key)
                  THEN [err |-> "KeyError", data |-> t]
                  ELSE MapLoopNoDrop(SetCol(t, value, GetCol(t, key)), p, i + 1)
             ELSE MapLoopNoDrop(t, p, i + 1)

\* the loop over pars.items(): the name check, then the rename of a source
\* column that is not itself a data-parameter name
RECURSIVE MapLoop(_, _, _)
MapLoop(t, p, i) ==
    IF i > Len(p) THEN [err |-> "none", data |-> t]
    ELSE LET key == p[i][1]
             value == p[i][2]
         IN  IF value \notin Elems(PARS_DATA)
             THEN [err |-> "InvalidVariableName", data |-> t]
             ELSE IF key \notin Elems(PARS_DATA)
             THEN IF ~HasCol(t, key)
                  THEN [err |-> "KeyError", data |-> t]
                  ELSE MapLoop(DropCol(SetCol(t, value, GetCol(t, key)), key), p, i + 1)
             ELSE MapLoop(t, p, i + 1)

HasMandatory(t) == \A i \in 1..Len(MANDATORY_DATA) : HasCol(t, MANDATORY_DATA[i])

\* the row positions of a table
Rows(t) == 1..Len(t.index)

\* QC with the RAIN assertion nested under the RHUM test
QCRainUnderRhum(t) ==
    LET tmin == GetCol(t, "TMIN")
        tmax == GetCol(t, "TMAX")
        rain == GetCol(t, "RAIN")
        srad == GetCol(t, "SRAD")
    IN  IF ~(\A r \in Rows(t) : Le(tmin.vals[r], tmax.vals[r])) THEN "QC_TEMP"
        ELSE IF HasCol(t, "RHUM")
                /\ ~(\A r \in Rows(t) : Ge(GetCol(t, "RHUM").vals[r], 0)
                                          /\ Le(GetCol(t, "RHUM").vals[r], 100))
             THEN "QC_RHUM"
        ELSE IF HasCol(t, "RHUM") /\ ~(\A r \in Rows(t) : Ge(rain.vals[r], 0))
             THEN "QC_RAIN"
        ELSE IF HasCol(t, "SRAD") /\ ~(\A r \in Rows(t) : Ge(srad.vals[r], 0))
             THEN "QC_SRAD"
        ELSE "none"

\* QC with the RAIN assertion placed before the RHUM assertion
QCRainFirst(t) ==
    LET tmin == GetCol(t, "TMIN")
        tmax == GetCol(t, "TMAX")
        rain == GetCol(t, "RAIN")
        srad == GetCol(t, "SRAD")
    IN  IF ~(\A r \in Rows(t) : Le(tmin.vals[r], tmax.vals[r])) THEN "QC_TEMP"
        ELSE IF ~(\A r \in Rows(t) : Ge(rain.vals[r], 0)) THEN "QC_RAIN"
        ELSE IF HasCol(t, "RHUM")
                /\ ~(\A r \in Rows(t) : Ge(GetCol(t, "RHUM").vals[r], 0)
                                          /\ Le(GetCol(t, "RHUM").vals[r], 100))
             THEN "QC_RHUM"
        ELSE IF HasCol(t, "SRAD") /\ ~(\A r \in Rows(t) : Ge(srad.vals[r], 0))
             THEN "QC_SRAD"
        ELSE "none"

\* the quick QC check: the first assertion that fails, "none" when all pass
QC(t) ==
    LET tmin == GetCol(t, "TMIN")
        tmax == GetCol(t, "TMAX")
        rain == GetCol(t, "RAIN")
        srad == GetCol(t, "SRAD")
    IN  IF ~(\A r \in Rows(t) : Le(tmin.vals[r], tmax.vals[r])) THEN "QC_TEMP"
        ELSE IF HasCol(t, "RHUM")
                /\ ~(\A r \in Rows(t) : Ge(GetCol(t, "RHUM").vals[r], 0)
                                          /\ Le(GetCol(t, "RHUM").vals[r], 100))
             THEN "QC_RHUM"
        ELSE IF ~(\A r \in Rows(t) : Ge(rain.vals[r], 0)) THEN "QC_RAIN"
        ELSE IF HasCol(t, "SRAD") /\ ~(\A r \in Rows(t) : Ge(srad.vals[r], 0))
             THEN "QC_SRAD"
        ELSE "none"

\* the date-column scan stopping at the first datetime-typed column
RECURSIVE ScanDateFirst(_, _, _)
ScanDateFirst(t, i, found) ==
    IF i > Len(t.cols) THEN found
    ELSE IF t.cols[i].dt THEN [kind |-> "col", col |-> t.cols[i].name]
    ELSE ScanDateFirst(t, i + 1, found)

\* the date-column scan: DATE_COL is False, then the name of each
\* datetime-typed column in turn, then True when the index is datetime-typed
RECURSIVE ScanDate(_, _, _)
ScanDate(t, i, found) ==
    IF i > Len(t.cols) THEN found
    ELSE ScanDate(t, i + 1, IF t.cols[i].dt
                            THEN [kind |-> "col", col |-> t.cols[i].name]
                            ELSE found)

DATE_COL(t) ==
    IF t.idt THEN [kind |-> "index", col |-> ""]
    ELSE ScanDate(t, 1, [kind |-> "none", col |-> ""])

\* the truth value of DATE_COL in `assert DATE_COL`: False is falsy, True is
\* truthy and a column label is truthy unless it is the empty string
Truthy(dc) == dc.kind = "index" \/ (dc.kind = "col" /\ dc.col # "")

\* the whole constructor on a copy of df: the error it raises ("none" when it
\* returns), the table after the mapping loop and the records it stores
Build(d, p) ==
    LET m == MapLoop(d, p, 1)
        t == m.data
        dc == DATE_COL(t)
    IN  IF m.err # "none" THEN [err |-> m.err, mapped |-> NoTable, data |-> NoTable]
        ELSE IF ~HasMandatory(t)
             THEN [err |-> "MissingMandatoryVariable", mapped |-> t, data |-> NoTable]
        ELSE IF QC(t) # "none" THEN [err |-> QC(t), mapped |-> t, data |-> NoTable]
        ELSE IF ~Truthy(dc)
             THEN [err |-> "MissingDateColumn", mapped |-> t, data |-> NoTable]
        ELSE [err |-> "none", mapped |-> t,
              data |-> IF dc.kind = "col" THEN SetIndex(t, dc.col) ELSE t]

LowerCase == <<"a", "b", "c", "d", "e", "f", "g", "h", "i", "j", "k", "l", "m",
               "n", "o", "p", "q", "r", "s", "t", "u", "v", "w", "x", "y", "z">>

UpperCase == <<"A", "B", "C", "D", "E", "F", "G", "H", "I", "J", "K", "L", "M",
               "N", "O", "P", "Q", "R", "S", "T", "U", "V", "W", "X", "Y", "Z">>

\* str.upper() on one character: every lower-case letter a-z becomes its
\* capital, every other character (capitals, digits, punctuation) is kept
UpperChar(c) ==
    IF \E k \in 1..Len(LowerCase) : LowerCase[k] = c
    THEN UpperCase[CHOOSE k \in 1..Len(LowerCase) : LowerCase[k] = c]
    ELSE c

\* s[:4].upper()
Norm4(s) == [i \in 1..(IF Len(s) < 4 THEN Len(s) ELSE 4) |-> UpperChar(s[i])]

NoStation == [description |-> "", INSI |-> <<>>, LAT |-> 0, LON |-> 0, ELEV |-> 0,
              TAV |-> 0, AMP |-> 0, REFHT |-> 0, WNDHT |-> 0]

NewStation(g) ==
    [description |-> "Weather station",
     INSI |-> Norm4(<<"W", "S", "T", "A">>),
     LAT |-> g[1], LON |-> g[2], ELEV |-> g[3],
     TAV |-> 17, AMP |-> 10, REFHT |-> 2, WNDHT |-> 10]

(***************************************************************************)
(* Weather.write                                                           *)
(***************************************************************************)
\* management absent (kwargs.get('management', False))
NoStart == 0

Year(d) == d \div 1000

Iota(n) == [i \in 1..n |-> i]

\* df.loc[mask]: the rows at the positions rs, in that order
Take(t, rs) ==
    [cols |-> [c \in 1..Len(t.cols) |->
                 [name |-> t.cols[c].name, dt |-> t.cols[c].dt,
                  vals |-> [k \in 1..Len(rs) |-> t.cols[c].vals[rs[k]]]]],
     idt |-> t.idt,
     index |-> [k \in 1..Len(rs) |-> t.index[rs[k]]]]

\* the truncation with a strict comparison
TruncateStrict(t, start) == Take(t, SelectSeq(Iota(Len(t.index)), LAMBDA r : t.index[r] > start))

\* self.data.loc[self.data.index >= sim_start]
Truncate(t, start) == Take(t, SelectSeq(Iota(Len(t.index)), LAMBDA r : t.index[r] >= start))

\* self.data.loc[self.data.index.year == year]
YearRows(t, year) == Take(t, SelectSeq(Iota(Len(t.index)), LAMBDA r : Year(t.index[r]) = year))

\* self.data.index.year.unique(): the years in order of first appearance
RECURSIVE UniqueYears(_, _, _)
UniqueYears(ix, i, acc) ==
    IF i > Len(ix) THEN acc
    ELSE UniqueYears(ix, i + 1, IF Year(ix[i]) \in Elems(acc) THEN acc
                                ELSE Append(acc, Year(ix[i])))

Digits == <<"0", "1", "2", "3", "4", "5", "6", "7", "8", "9">>

\* str(n) for n >= 0, as a sequence of characters
RECURSIVE Str(_)
Str(n) == IF n < 10 THEN <<Digits[n + 1]>> ELSE Append(Str(n \div 10), Digits[(n % 10) + 1])

\* s[2:]
From2(s) == IF Len(s) <= 2 THEN <<>> ELSE SubSeq(s, 3, Len(s))

\* f'{self.INSI}{str(year)[2:]}{month}.WTH' with month = '01'
Filename(insi, year) == insi \o From2(Str(year)) \o <<"0", "1">> \o <<".", "W", "T", "H">>

\* day.strftime('%y%j'): two-digit year and day of year, as the number yyddd
DayCode(d) == (Year(d) % 100) * 1000 + (d % 1000)

\* the text of one file: title, station line arguments, column header
\* arguments and, for each row of df in iteration order, [day] + list(fields)
Body(st, t, ydf) ==
    [title |-> st.description,
     stationLine |-> <<st.INSI, st.LAT, st.LON, st.ELEV, st.TAV, st.AMP, st.REFHT, st.WNDHT>>,
     header |-> Columns(t),
     lines |-> [r \in 1..Len(ydf.index) |->
                  [day |-> DayCode(ydf.index[r]),
                   fields |-> [c \in 1..Len(ydf.cols) |-> ydf.cols[c].vals[r]]]]]

\* open(os.path.join(folder, filename), 'w'); f.write(outstr)
PutFile(fs, folder, name, body) ==
    {f \in fs : ~(f.folder = folder /\ f.name = name)}
        \cup {[folder |-> folder, name |-> name, body |-> body]}

\* the loop over the years: one file per iteration
RECURSIVE WriteYears(_, _, _, _, _, _)
WriteYears(st, t, years, i, folder, fs) ==
    IF i > Len(years) THEN fs
    ELSE WriteYears(st, t, years, i + 1, folder,
                    PutFile(fs, folder, Filename(st.INSI, years[i]),
                            Body(st, t, YearRows(t, years[i]))))

\* the existence test as a directory test (os.path.isdir)
ExistsIsDir(ds, folder) == ds[folder] = "dir"

\* os.path.exists(folder)
Exists(ds, folder) == ds[folder] \in {"dir", "file"}

\* os.mkdir(folder): the exception it raises and the directory states it leaves
Mkdir(ds, folder) ==
    CASE ds[folder] = "absent" -> [err |-> "none", dirs |-> [ds EXCEPT ![folder] = "dir"]]
      [] ds[folder] = "noparent" -> [err |-> "FileNotFoundError", dirs |-> ds]
      [] OTHER -> [err |-> "FileExistsError", dirs |-> ds]

\* the whole method: the exception it raises ("none" when it returns) and
\* the directory states, records and files it leaves
WriteResult(st, t, ds, fs, folder, man) ==
    LET mk == IF ~Exists(ds, folder) THEN Mkdir(ds, folder)
              ELSE [err |-> "none", dirs |-> ds]
        t2 == IF man # NoStart THEN Truncate(t, man) ELSE t
        years == UniqueYears(t2.index, 1, <<>>)
    IN  IF mk.err # "none"
        THEN [status |-> mk.err, dirs |-> mk.dirs, data |-> t, files |-> fs,
              opened |-> <<>>]
        ELSE IF Len(years) > 0 /\ mk.dirs[folder] # "dir"
        THEN [status |-> "NotADirectoryError", dirs |-> mk.dirs, data |-> t2,
              files |-> fs, opened |-> <<>>]
        ELSE [status |-> "none", dirs |-> mk.dirs, data |-> t2,
              files |-> WriteYears(st, t2, years, 1, folder, fs),
              opened |-> [i \in 1..Len(years) |-> Filename(st.INSI, years[i])]]

(***************************************************************************)
(* Inputs of the constructor                                               *)
(***************************************************************************)
IsDateName(c) == c \in {"d1", "d2", ""}

\* two cell values per column name that exercise the quality control
CellValues(c) ==
    CASE c = "TMIN" -> <<1, 3>>
      [] c = "TMAX" -> <<2, 0>>
      [] c = "RAIN" -> <<0, -1>>
      [] c = "SRAD" -> <<5, -1>>
      [] c = "RHUM" -> <<50, 101>>
      [] OTHER -> <<1, NA>>

\* one valid value per cell, different for every column and row
TagValue(c, r) ==
    CASE c = "TMIN" -> r
      [] c = "tn" -> 10 + r
      [] c = "xx" -> 20 + r
      [] c = "TMAX" -> 30 + r
      [] c = "RAIN" -> 40 + r
      [] c = "SRAD" -> 50 + r
      [] c = "RHUM" -> 60 + r
      [] c = "d1" -> 2000000 + r
      [] c = "d2" -> 2001000 + r
      [] c = "" -> 2002000 + r
      [] OTHER -> 70 + r

\* the columns L with the cell values picked by pick[column][row]
PickCols(L, n, pick) ==
    [i \in 1..Len(L) |-> [name |-> L[i], dt |-> FALSE,
                          vals |-> [r \in 1..n |-> CellValues(L[i])[pick[i][r]]]]]

TagCols(L, n) ==
    [i \in 1..Len(L) |-> [name |-> L[i], dt |-> IsDateName(L[i]),
                          vals |-> [r \in 1..n |-> TagValue(L[i], r)]]]

\* a RangeIndex 0..n-1, or the n days from 1999-01-02 on
IndexOf(idt, n) == [r \in 1..n |-> IF idt THEN 1999001 + r ELSE r - 1]

QCLayouts ==
    {<<"TMIN", "TMAX", "RAIN", "SRAD">>,
     <<"TMIN", "TMAX", "RAIN", "SRAD", "RHUM">>,
     <<"tn", "TMAX", "RAIN", "SRAD", "RHUM">>,
     <<"TMIN", "TMAX", "RAIN">>}

QCPars ==
    {<<>>, <<<<"tn", "TMIN">>>>, <<<<"tn", "BOGUS">>>>}

NumLayouts ==
    {<<"TMIN", "TMAX", "RAIN", "SRAD">>,
     <<"tn", "TMAX", "RAIN", "SRAD", "xx">>,
     <<"TMIN", "tn", "xx", "TMAX", "RAIN", "SRAD", "RHUM">>,
     <<"xx", "TMAX", "RAIN", "tn">>}

DateArrangements ==
    {<<<<>>, <<>>>>, <<<<"d1">>, <<>>>>, <<<<"d1">>, <<"d2">>>>,
     <<<<"d2">>, <<"d1">>>>, <<<<"d1", "d2">>, <<>>>>,
     <<<<"">>, <<>>>>, <<<<"d1">>, <<"">>>>, <<<<"">>, <<"d1">>>>}

MapPars ==
    {<<>>,
     <<<<"tn", "TMIN">>>>,
     <<<<"tn", "TMIN">>, <<"xx", "TMIN">>>>,
     <<<<"xx", "TMIN">>, <<"tn", "TMIN">>, <<"TMAX", "TMIN">>>>,
     <<<<"tn", "TMIN">>, <<"xx", "SRAD">>>>,
     <<<<"tn", "TMIN">>, <<"xx", "RHUM">>>>,
     <<<<"tn", "TMIN">>, <<"xx", "BOGUS">>>>,
     <<<<"xx", "BOGUS">>, <<"tn", "TMIN">>>>,
     <<<<"tn", "TMIN">>, <<"TMAX", "TMAX">>, <<"RHUM", "DEWP">>>>,
     <<<<"TMAX", "TMIN">>>>,
     <<<<"d1", "DATE">>>>,
     <<<<"tn", "TMIN">>, <<"d1", "DATE">>>>,
     <<<<"d2", "DATE">>, <<"xx", "RHUM">>>>}

MapInputs ==
    {[df |-> [cols |-> TagCols(da[1] \o L \o da[2], n), idt |-> idt,
              index |-> IndexOf(idt, n)], pars |-> p] :
        L \in NumLayouts, da \in DateArrangements, idt \in BOOLEAN,
        p \in MapPars, n \in 0..MaxRows}

(***************************************************************************)
(* Inputs of write: stations built from a table with a datetime index      *)
(***************************************************************************)
DatePool == {1901001, 2000001, 2000002, 2001001}

StartPool == {2000002, 2001001, 2002001}

\* the records are keyed by unique dates, in any row order
WriteInputs ==
    UNION {{[df |-> [cols |-> TagCols(<<"TMIN", "TMAX", "RAIN", "SRAD">>, n),
                     idt |-> TRUE, index |-> ix], pars |-> <<>>] :
              ix \in {f \in [1..n -> DatePool] :
                        \A i, j \in 1..n : i # j => f[i] # f[j]}} : n \in 0..MaxRecs}

\* the output folders: '' (the default, which cannot be created), a path
\* that does not exist yet and a path that is a regular file
Folders == {"", "out", "blocked"}

InitDirs == [f \in Folders |-> CASE f = "" -> "noparent"
                                 [] f = "out" -> "absent"
                                 [] OTHER -> "file"]

INSIValues == {<<"a", "b", "c", "d", "e", "f">>, <<"x", "y">>}

NoOp == [op |-> "none", folder |-> "", man |-> NoStart, status |-> "none",
         opened |-> <<>>, preData |-> NoTable, preStation |-> NoStation,
         preDirs |-> InitDirs, preFiles |-> {}]

(***************************************************************************)
(* The state machine                                                       *)
(***************************************************************************)
InitRest ==
    /\ pc = "new"
    /\ geo = <<4, -75, 1800>>
    /\ err = "none"
    /\ mapped = NoTable
    /\ station = NoStation
    /\ data = NoTable
    /\ orig = NoTable
    /\ dirs = InitDirs
    /\ files = {}
    /\ last = NoOp
    /\ starts = {}
    /\ nWrites = 0

\* tables whose cells exercise the quality control
InitQC ==
    /\ \E n \in 0..MaxRows, L \in QCLayouts, idt \in BOOLEAN, p \in QCPars :
          \E pick \in [1..Len(L) -> [1..n -> {1, 2}]] :
              /\ df = [cols |-> PickCols(L, n, pick), idt |-> idt, index |-> IndexOf(idt, n)]
              /\ pars = p
    /\ InitRest

\* tables and mappings that exercise the renaming and the date columns
InitMap ==
    /\ \E i \in MapInputs : df = i.df /\ pars = i.pars
    /\ InitRest

\* weather = Weather(df, pars, lat, lon, elev)
BuildStep ==
    /\ pc = "new"
    /\ LET r == Build(df, pars)
       IN  /\ err' = r.err
           /\ mapped' = r.mapped
           /\ data' = r.data
           /\ orig' = r.data
           /\ pc' = IF r.err = "none" THEN "built" ELSE "failed"
           /\ station' = IF r.err = "none" THEN NewStation(geo) ELSE NoStation
    /\ last' = [NoOp EXCEPT !.op = "build"]
    /\ UNCHANGED <<df, pars, geo, dirs, files, starts, nWrites>>

\* weather.INSI = v
SetINSI ==
    /\ pc = "built"
    /\ \E v \in INSIValues :
          /\ station.INSI # v
          /\ station' = [station EXCEPT !.INSI = v]
    /\ last' = [NoOp EXCEPT !.op = "set"]
    /\ UNCHANGED <<pc, df, pars, geo, err, mapped, data, orig, dirs, files, starts, nWrites>>

\* weather.write(folder) or weather.write(folder, management=man); starts
\* collects the start dates of the calls that got past the directory step
WriteStep ==
    /\ pc = "built"
    /\ nWrites < MaxWrites
    /\ \E folder \in Folders, man \in {NoStart} \cup StartPool :
          LET r == WriteResult(station, data, dirs, files, folder, man)
          IN  /\ dirs' = r.dirs
              /\ data' = r.data
              /\ files' = r.files
              /\ last' = [op |-> "write", folder |-> folder, man |-> man,
                          status |-> r.status, opened |-> r.opened,
                          preData |-> data, preStation |-> station,
                          preDirs |-> dirs, preFiles |-> files]
              /\ starts' = IF man # NoStart
                              /\ r.status \notin {"FileNotFoundError", "FileExistsError"}
                           THEN starts \cup {man} ELSE starts
    /\ nWrites' = nWrites + 1
    /\ UNCHANGED <<pc, df, pars, geo, err, mapped, station, orig>>

InitBuild == InitQC \/ InitMap

NextBuild == BuildStep

SpecBuild == InitBuild /\ [][NextBuild]_vars

Init ==
    /\ \E i \in WriteInputs : df = i.df /\ pars = i.pars
    /\ InitRest

Next == BuildStep \/ SetINSI \/ WriteStep

Spec == Init /\ [][Next]_vars

(***************************************************************************)
(* Vocabulary of the properties                                            *)
(***************************************************************************)
NRows(t) == Len(t.index)

Cell(t, c, r) == GetCol(t, c).vals[r]

ColNames(t) == Elems(Columns(t))

Mandatory == {"TMIN", "TMAX", "RAIN", "SRAD"}

DataNames == {"DATE", "SRAD", "TMAX", "TMIN", "RAIN", "DEWP", "WIND", "PAR", "EVAP", "RHUM"}

\* the mapping entries that rename: the source is not a data-parameter name
Renamed == {i \in 1..Len(pars) : pars[i][1] \notin DataNames}

\* every source column that the mapping renames is a column of the input
SourcesExist == \A i \in Renamed : pars[i][1] \in ColNames(df)

DtCols(t) == SelectSeq(t.cols, LAMBDA c : c.dt)

\* the rules of the constructor, stated on the input and on the table the
\* mapping produced, in the order of the error policy
Rule1Violated == \E i \in 1..Len(pars) : pars[i][2] \notin DataNames

Rule2Violated == \E m \in Mandatory : m \notin ColNames(mapped)

Rule3Violated == \E r \in 1..NRows(mapped) : ~Le(Cell(mapped, "TMIN", r), Cell(mapped, "TMAX", r))

Rule4Violated ==
    /\ "RHUM" \in ColNames(mapped)
    /\ \E r \in 1..NRows(mapped) :
          ~(Ge(Cell(mapped, "RHUM", r), 0) /\ Le(Cell(mapped, "RHUM", r), 100))

Rule5Violated == \E r \in 1..NRows(mapped) : ~Ge(Cell(mapped, "RAIN", r), 0)

Rule6Violated == \E r \in 1..NRows(mapped) : ~Ge(Cell(mapped, "SRAD", r), 0)

Rule7Violated == ~mapped.idt /\ Len(DtCols(mapped)) = 0

\* the index is not datetime-typed and the rightmost datetime-typed column
\* is labelled with the empty string
EmptyDateLabel ==
    /\ ~mapped.idt
    /\ Len(DtCols(mapped)) >= 1
    /\ DtCols(mapped)[Len(DtCols(mapped))].name = ""

FirstViolated ==
    IF Rule1Violated THEN "InvalidVariableName"
    ELSE IF Rule2Violated THEN "MissingMandatoryVariable"
    ELSE IF Rule3Violated THEN "QC_TEMP"
    ELSE IF Rule4Violated THEN "QC_RHUM"
    ELSE IF Rule5Violated THEN "QC_RAIN"
    ELSE IF Rule6Violated THEN "QC_SRAD"
    ELSE IF Rule7Violated THEN "MissingDateColumn"
    ELSE "none"

\* a row of t breaks one of the quality conditions
BadRow(t, r) ==
    \/ ~Le(Cell(t, "TMIN", r), Cell(t, "TMAX", r))
    \/ ~Ge(Cell(t, "RAIN", r), 0)
    \/ ~Ge(Cell(t, "SRAD", r), 0)
    \/ ("RHUM" \in ColNames(t)
          /\ ~(Ge(Cell(t, "RHUM", r), 0) /\ Le(Cell(t, "RHUM", r), 100)))

(***************************************************************************)
(* Properties of the constructor (SpecBuild)                               *)
(***************************************************************************)
\* C1: a station that the constructor returns has the mandatory columns
\* TMIN, TMAX, RAIN, SRAD in its records and every row has TMIN <= TMAX,
\* RAIN >= 0, SRAD >= 0 and RHUM in [0,100] when RHUM is a column; an input
\* that already carries the canonical columns and has a row breaking one of
\* these conditions yields no station.
C1_BuiltRecordsPassQC ==
    /\ pc = "built" =>
          /\ Mandatory \subseteq ColNames(data)
          /\ \A r \in 1..NRows(data) : ~BadRow(data, r)
    /\ (pc # "new" /\ pars = <<>> /\ Mandatory \subseteq ColNames(df)
          /\ \E r \in 1..NRows(df) : BadRow(df, r)) => pc = "failed"

C1_Witness ==
    /\ pc = "built"
    /\ "RHUM" \in ColNames(data)
    /\ NRows(data) >= 2
    /\ Renamed # {}

\* C2: the constructor reports the earliest violated rule of the order
\* invalid name, missing mandatory variable, TMIN <= TMAX, RHUM in [0,100],
\* RAIN >= 0, SRAD >= 0, date source, and returns no station when a rule is
\* violated (for mappings whose renamed source columns exist in the table);
\* an error of the rules 1 to 6 is reported only when its rule is the
\* earliest violated one.
C2_FirstViolatedRuleReported ==
    (pc # "new" /\ SourcesExist) =>
        /\ FirstViolated # "none" => err = FirstViolated
        /\ err \notin {"none", "MissingDateColumn"} => err = FirstViolated
        /\ err # "none" => (pc = "failed" /\ station = NoStation /\ data = NoTable)

C2_Witness ==
    /\ pc = "failed"
    /\ err = "QC_TEMP"
    /\ Rule5Violated
    /\ Rule6Violated
    /\ Rule7Violated

\* C3 as stated: without a datetime index and with two or more
\* datetime-typed columns, the leftmost of them becomes the index of the
\* records and is removed from the columns.
C3_LeftmostDateColumn ==
    (pc = "built" /\ ~mapped.idt /\ Len(DtCols(mapped)) >= 2) =>
        /\ data.index = DtCols(mapped)[1].vals
        /\ DtCols(mapped)[1].name \notin ColNames(data)

\* C3 amended: a datetime index is used as-is; otherwise the rightmost
\* datetime-typed column becomes the index and is removed from the columns,
\* the other columns staying in order; without any date source, or when
\* the rightmost datetime-typed column is labelled with the empty string,
\* the constructor fails with MissingDateColumn.
C3_RightmostDateColumn ==
    /\ (pc = "built" /\ mapped.idt) => data = mapped
    /\ (pc = "built" /\ ~mapped.idt) =>
          /\ Len(DtCols(mapped)) >= 1
          /\ LET d == DtCols(mapped)[Len(DtCols(mapped))]
             IN  /\ d.name # ""
                 /\ data.index = d.vals
                 /\ data.idt
                 /\ data.cols = SelectSeq(mapped.cols, LAMBDA c : c.name # d.name)
    /\ (pc = "failed" /\ err = "MissingDateColumn") => (Rule7Violated \/ EmptyDateLabel)
    /\ (pc # "new" /\ err \notin {"InvalidVariableName", "KeyError", "MissingMandatoryVariable",
                                  "QC_TEMP", "QC_RHUM", "QC_RAIN", "QC_SRAD"}
          /\ (Rule7Violated \/ EmptyDateLabel)) => (pc = "failed" /\ err = "MissingDateColumn")

C3_Witness ==
    /\ pc = "built"
    /\ ~mapped.idt
    /\ Len(DtCols(mapped)) >= 2
    /\ NRows(data) >= 1
    /\ data.index # DtCols(mapped)[1].vals

\* the columns the records get from the input and the mapping: the input
\* columns with every renamed source replaced by its target
RenamedCols ==
    (ColNames(df) \ {pars[i][1] : i \in Renamed}) \cup {pars[i][2] : i \in Renamed}

\* C4 as stated: the columns of the records of a built station are exactly
\* the mandatory columns and the optional canonical names that the mapping
\* targets.
C4_OnlyMandatoryAndMapped ==
    pc = "built" =>
        ColNames(data) = Mandatory \cup
            ({pars[i][2] : i \in 1..Len(pars)} \cap (DataNames \ Mandatory))

\* C4 amended: an input that violates no rule, and whose date source is
\* not a column labelled with the empty string, is built, and the columns
\* of its records are all the input columns, each renamed source replaced
\* by its target, minus the datetime-typed column adopted as the index
\* when the input index is not datetime-typed.
C4_AllInputColumnsKept ==
    /\ (pc # "new" /\ SourcesExist /\ FirstViolated = "none" /\ ~EmptyDateLabel)
          => pc = "built"
    /\ pc = "built" =>
          IF df.idt THEN ColNames(data) = RenamedCols
          ELSE \E c \in {DtCols(mapped)[k].name : k \in 1..Len(DtCols(mapped))} :
                  /\ c \in RenamedCols
                  /\ ColNames(data) = RenamedCols \ {c}

C4_Witness ==
    /\ pc = "built"
    /\ "xx" \in ColNames(data)
    /\ "d1" \in ColNames(data)
    /\ Renamed # {}
    /\ ~df.idt

\* the mapping loop ran to its end
LoopDone == pc # "new" /\ err \notin {"InvalidVariableName", "KeyError"}

\* the last renaming entry, in mapping order, that targets v
LastFor(v) == CHOOSE i \in Renamed :
                 /\ pars[i][2] = v
                 /\ \A j \in Renamed : pars[j][2] = v => j <= i

\* C10 as stated: after the mapping step every renamed source column is
\* gone and its target column holds the values the source had in the input.
C10_TargetHoldsSourceValues ==
    LoopDone =>
        \A i \in Renamed :
            /\ pars[i][1] \notin ColNames(mapped)
            /\ pars[i][2] \in ColNames(mapped)
            /\ GetCol(mapped, pars[i][2]).vals = GetCol(df, pars[i][1]).vals

\* C10 amended: after the mapping step every renamed source column is gone
\* and its target column holds the values of the last source column, in
\* mapping order, renamed to that target; entries whose source is itself a
\* data-parameter name change nothing, so every column that is neither a
\* renamed source nor a target is as in the input.
C10_TargetHoldsLastSourceValues ==
    LoopDone =>
        /\ \A i \in Renamed :
              /\ pars[i][1] \notin ColNames(mapped)
              /\ pars[i][2] \in ColNames(mapped)
              /\ GetCol(mapped, pars[i][2]).vals = GetCol(df, pars[LastFor(pars[i][2])][1]).vals
        /\ \A c \in ColNames(df) \ ({pars[i][1] : i \in Renamed} \cup {pars[i][2] : i \in Renamed}) :
              /\ c \in ColNames(mapped)
              /\ GetCol(mapped, c) = GetCol(df, c)
        /\ mapped.index = df.index

C10_Witness ==
    /\ LoopDone
    /\ NRows(mapped) >= 1
    /\ \E i, j \in Renamed : i < j /\ pars[i][2] = pars[j][2]
    /\ \E k \in 1..Len(pars) : pars[k][1] \in DataNames

(***************************************************************************)
(* Properties of write (Spec)                                              *)
(***************************************************************************)
\* the rows of a table: date and field values
RowRecs(t) ==
    [r \in 1..NRows(t) |-> [date |-> t.index[r],
                            fields |-> [c \in 1..Len(t.cols) |-> t.cols[c].vals[r]]]]

\* the data line of a row
LineOf(row) == [day |-> (((row.date \div 1000) % 100) * 1000) + (row.date % 1000),
                fields |-> row.fields]

LinesOfYear(t, y) ==
    LET rows == SelectSeq(RowRecs(t), LAMBDA row : row.date \div 1000 = y)
    IN  [k \in 1..Len(rows) |-> LineOf(rows[k])]

YearsOf(t) == {t.index[r] \div 1000 : r \in 1..NRows(t)}

First4(s) == SubSeq(s, 1, IF Len(s) < 4 THEN Len(s) ELSE 4)

Last2(y) == <<Digits[((y \div 10) % 10) + 1], Digits[(y % 10) + 1]>>

MaxOf(S) == CHOOSE m \in S : \A x \in S : x <= m

\* the last operation was a write call that returned
Wrote == last.op = "write" /\ last.status = "none"

\* the files of the output folder that the last write call opened
Written == {f \in files : f.folder = last.folder /\ f.name \in Elems(last.opened)}

MkdirErrors == {"FileNotFoundError", "FileExistsError"}

\* C5: every file that a write call creates is named by the first 4
\* characters of the INSI attribute at the time of the call, the last two
\* digits of a year of the records, 01 and .WTH, so the name has at most
\* 4 + 8 characters.
C5_FileNameUsesFirst4OfINSI ==
    Wrote =>
        \A k \in 1..Len(last.opened) :
            /\ \E y \in YearsOf(data) :
                  last.opened[k] = First4(station.INSI) \o Last2(y)
                                      \o <<"0", "1", ".", "W", "T", "H">>
            /\ Len(last.opened[k]) <= 12

\* C6: after a write call that returned, the files it wrote are as many as
\* the distinct years of the records, and for every year one of them holds
\* the data lines of exactly the rows of that year.
C6_OneFilePerYear ==
    Wrote =>
        /\ Cardinality(Written) = Cardinality(YearsOf(data))
        /\ \A y \in YearsOf(data) :
              \E f \in Written : f.body.lines = LinesOfYear(data, y)

\* C7: in every file written by a write call the data lines are in
\* ascending date order.
C7_LinesAscending ==
    Wrote =>
        \A f \in Written :
            \A i, j \in 1..Len(f.body.lines) :
                i < j => f.body.lines[i].day <= f.body.lines[j].day

\* C8: the records are the originally built rows dated on or after the
\* latest start date of the write calls so far (calls that got past the
\* directory step), also when a later call uses an earlier date; a call
\* with start date D keeps exactly the rows dated >= D, a call without a
\* start date leaves the records unchanged, and no call changes the
\* columns of the records or a station attribute.
C8_TruncationsCompound ==
    pc = "built" =>
        /\ RowRecs(data) = SelectSeq(RowRecs(orig),
                                     LAMBDA row : starts = {} \/ row.date >= MaxOf(starts))
        /\ Columns(data) = Columns(orig)
        /\ last.op = "write" =>
              /\ station = last.preStation
              /\ Columns(data) = Columns(last.preData)
              /\ last.man = NoStart => data = last.preData
              /\ last.status \in MkdirErrors => data = last.preData
              /\ (last.man # NoStart /\ last.status \notin MkdirErrors) =>
                    RowRecs(data) = SelectSeq(RowRecs(last.preData),
                                              LAMBDA row : row.date >= last.man)

C8_Witness ==
    /\ pc = "built"
    /\ last.op = "write"
    /\ Cardinality(starts) = 2
    /\ last.man # NoStart
    /\ last.man < MaxOf(starts)
    /\ NRows(data) >= 1
    /\ NRows(data) < NRows(orig)
    /\ \E r \in 1..NRows(data) : data.index[r] = MaxOf(starts)

\* C9 as stated: a write call creates an absent output directory, and on a
\* path that cannot be used as a directory it fails and writes no file,
\* whatever the records hold.
C9_UnusableDirectoryFails ==
    last.op = "write" =>
        /\ last.preDirs[last.folder] = "absent" => dirs[last.folder] = "dir"
        /\ last.preDirs[last.folder] \in {"file", "noparent"} =>
              (last.status # "none" /\ files = last.preFiles)

\* C9 amended: a write call creates an absent output directory and fails
\* with the error of mkdir when it cannot be created; on a path that exists
\* but is not a directory it creates nothing and writes no file, failing
\* (when it opens the first file) only if the records have a row left and
\* returning normally when they have none.
C9_FailsOnlyWhenAFileIsOpened ==
    last.op = "write" =>
        /\ last.preDirs[last.folder] = "absent" =>
              (dirs[last.folder] = "dir" /\ last.status = "none")
        /\ last.preDirs[last.folder] = "dir" => (dirs = last.preDirs /\ last.status = "none")
        /\ last.preDirs[last.folder] = "noparent" =>
              /\ last.status = "FileNotFoundError"
              /\ dirs = last.preDirs
              /\ files = last.preFiles
        /\ last.preDirs[last.folder] = "file" =>
              /\ dirs = last.preDirs
              /\ files = last.preFiles
              /\ NRows(data) > 0 => last.status = "NotADirectoryError"
              /\ NRows(data) = 0 => last.status = "none"

C9_Witness ==
    /\ last.op = "write"
    /\ last.preDirs[last.folder] = "file"
    /\ last.man # NoStart
    /\ NRows(last.preData) > 0
    /\ NRows(data) = 0
    /\ last.status = "none"

====
